---- MODULE Spec2Model ----
(***************************************************************************)
(* NiftyNavigator: the monitoring process (src/monitor.py) and the         *)
(* advisory bot process (src/bot.py), which share the position file        *)
(* positions.json.  The monitoring process runs its command handlers one   *)
(* at a time on one event loop together with the Alert Loop tasks; the bot *)
(* process is a separate operating-system process, so its file accesses    *)
(* interleave with the monitoring process at every file operation.         *)
(***************************************************************************)
EXTENDS Integers, Sequences, FiniteSets, TLC

\* ---------------------------------------------------------------- bounds
MaxStarts == 2      \* monitoring start commands in one run
MaxAdds == 2        \* add_position calls in one run
MaxPrice == 110     \* largest price of the classification inputs
MaxBelowZero == 3   \* classification inputs reach down to -MaxBelowZero

\* ------------------------------------------------------- program constants
UP_THRESHOLD == 3
DOWN_THRESHOLD == -2

\* The outcome of a price lookup that raised (no data, network error).
NoData == -1

Chats == {"c1", "c2"}
NoChat == "none"
Typed == {"aaa", "BBB.NS"}
\* What a lookup can return to buy_handler, when the provider's data is sound
\* and when it also holds a bar that closed at 0.
SoundQuotes == {NoData, 100}
ZeroQuotes == {NoData, 0, 100}

\* str.upper() on the symbols that are typed.
Upper(s) ==
  CASE s = "aaa" -> "AAA"
    [] s = "BBB.NS" -> "BBB.NS"
    [] OTHER -> s

\* symbol if symbol.endswith(".NS") else symbol + ".NS"
Ticker(symbol) == IF symbol = "AAA" THEN "AAA.NS" ELSE symbol

Tickers == {Ticker(Upper(s)) : s \in Typed}

\* What a lookup can return to the Alert Loop: one ticker may have risen, the
\* other may have fallen.
Quotes ==
  {qs \in [Tickers -> {NoData, 97, 100, 104}] :
     qs["AAA.NS"] # 97 /\ qs["BBB.NS"] # 104}

VARIABLES
  chat_id,        \* content of .chatid, NoChat when the file is absent
  flag,           \* .monitor_active exists
  file,           \* positions.json: [st: absent | bad | ok, data: positions]
  now,            \* logical clock of the timestamps; ticks at each start
  mon_pc,         \* start_monitor's position: idle | clearing | replying
  update_chat,    \* start_monitor's local chat_id
  loops,          \* Alert Loop tasks asleep, no stop processed since launch
  lingering,      \* Alert Loop tasks asleep that a stop was processed for
  bot_pc,         \* add_position's position: idle | loaded | opened
  bot_positions,  \* add_position's local list
  nAdds,          \* add_position calls so far
  addLog,         \* history: the (symbol, price) of the add_position calls
                  \* since the store was last cleared, kept for as long as
                  \* no add has overlapped a clear
  raced,          \* history: an add overlapped the last clear
  ev,             \* observation: the last step, what it sent and raised
  feed,           \* what a lookup can return to buy_handler in this run
  entry, current, verdict   \* inputs and result of one classification

classifyVars == <<feed, entry, current, verdict>>
fileVars == <<chat_id, flag, file>>
monVars == <<mon_pc, update_chat, loops, lingering, raced>>
botVars == <<bot_pc, bot_positions, nAdds, addLog>>
vars == <<chat_id, flag, file, now, mon_pc, update_chat, loops, lingering,
          bot_pc, bot_positions, nAdds, addLog, raced, ev, feed, entry,
          current, verdict>>

\* ------------------------------------------------------------ files
Absent == [st |-> "absent", data |-> <<>>]
Unparseable == [st |-> "bad", data |-> <<>>]
Valid(ps) == [st |-> "ok", data |-> ps]

\* open(path, "w"): the file is truncated (or created) before anything is
\* written; until the writer closes it, a reader of another process sees
\* an empty file, which json.load rejects.
open_w(f) == Unparseable

\* The buffered text reaches the file, from offset 0, when the writer closes
\* it.  Text that another process wrote meanwhile is overwritten only as far
\* as the new text reaches: a shorter text over a longer one leaves a tail.
write_close(f, ps) ==
  IF f.st = "ok" /\ Len(f.data) > Len(ps) THEN Unparseable ELSE Valid(ps)

\* load_positions: [] when the file is absent, json.load's result otherwise;
\* json.load raises on text that is no JSON document.
load_positions(f) ==
  [error |-> IF f.st = "bad" THEN "JSONDecodeError" ELSE "none",
   value |-> IF f.st = "ok" THEN f.data ELSE <<>>]

\* clear_positions, second half: write "[]" and close.
clear_positions(f) == write_close(f, <<>>)

\* get_chat_id
get_chat_id == IF chat_id = NoChat THEN NoChat ELSE chat_id

\* ------------------------------------------------------------ events
Event(op) ==
  [op |-> op,            \* the handler or task step that ran
   error |-> "none",     \* the exception it raised
   reply |-> "none",     \* the reply_text it sent
   chat |-> NoChat,      \* the sender of the command
   next |-> "none",      \* a pass: sleeping | done | crashed
   stopped |-> FALSE,    \* a pass: the task had a stop processed
   msg |-> <<>>,         \* a pass: the alert lines delivered
   lookups |-> 0,        \* a pass: the price lookups made
   quotes |-> [tk \in Tickers |-> NoData]]   \* a pass: what they returned

\* ------------------------------------------------------------ alerts
\* change = ((current - entry) / entry) * 100, kept as a fraction.
Change(e, c) == [num |-> (c - e) * 100, den |-> e]

\* change >= k and change <= k for an integer k (den # 0).
ChangeGE(ch, k) ==
  IF ch.den > 0 THEN ch.num >= k * ch.den ELSE ch.num <= k * ch.den
ChangeLE(ch, k) ==
  IF ch.den > 0 THEN ch.num <= k * ch.den ELSE ch.num >= k * ch.den

\* f"{change:.2f}" in hundredths of a percent: the nearest hundredth, ties
\* to the even one.
Abs(x) == IF x < 0 THEN 0 - x ELSE x
RoundHalfEven(n, d) ==
  LET q == n \div d
      r == n - q * d
  IN  IF 2 * r < d THEN q
      ELSE IF 2 * r > d THEN q + 1
      ELSE IF q % 2 = 0 THEN q ELSE q + 1
Pct(e, c) ==
  LET n == (c - e) * 10000
  IN  IF (n >= 0) = (e > 0) THEN RoundHalfEven(Abs(n), Abs(e))
      ELSE 0 - RoundHalfEven(Abs(n), Abs(e))

\* The division and the if / elif of the loop body; a zero entry makes the
\* division raise.
Classify_strict(e, c) ==
  IF e = 0 THEN "raise"
  ELSE IF ~ChangeLE(Change(e, c), UP_THRESHOLD) THEN "up"
  ELSE IF ~ChangeGE(Change(e, c), DOWN_THRESHOLD) THEN "down"
  ELSE "none"

Classify(e, c) ==
  IF e = 0 THEN "raise"
  ELSE IF ChangeGE(Change(e, c), UP_THRESHOLD) THEN "up"
  ELSE IF ChangeLE(Change(e, c), DOWN_THRESHOLD) THEN "down"
  ELSE "none"

AlertLine(dir, p, c) ==
  [dir |-> dir, symbol |-> p.symbol, pct |-> Pct(p.entry_price, c),
   current |-> c, entry |-> p.entry_price]

\* The for loop over the loaded positions, from position i on; qs is what
\* the price lookup of each ticker returns during this pass.
RECURSIVE Scan_break(_, _, _, _, _)
Scan_break(ps, i, alerts, looked, qs) ==
  IF i > Len(ps)
    THEN [error |-> "none", alerts |-> alerts, lookups |-> looked]
  ELSE LET p == ps[i]
           q == qs[Ticker(p.symbol)]
       IN  IF q = NoData
             THEN [error |-> "none", alerts |-> alerts,
                   lookups |-> looked + 1]
           ELSE LET k == Classify(p.entry_price, q)
                IN  IF k = "raise"
                      THEN [error |-> "ZeroDivisionError", alerts |-> <<>>,
                            lookups |-> looked + 1]
                    ELSE IF k = "none"
                      THEN Scan_break(ps, i + 1, alerts, looked + 1, qs)
                    ELSE Scan_break(ps, i + 1,
                                    Append(alerts, AlertLine(k, p, q)),
                                    looked + 1, qs)

RECURSIVE Scan(_, _, _, _, _)
Scan(ps, i, alerts, looked, qs) ==
  IF i > Len(ps)
    THEN [error |-> "none", alerts |-> alerts, lookups |-> looked]
  ELSE LET p == ps[i]
           q == qs[Ticker(p.symbol)]
       IN  IF q = NoData THEN Scan(ps, i + 1, alerts, looked + 1, qs)
           ELSE LET k == Classify(p.entry_price, q)
                IN  IF k = "raise"
                      THEN [error |-> "ZeroDivisionError", alerts |-> <<>>,
                            lookups |-> looked + 1]
                    ELSE IF k = "none"
                      THEN Scan(ps, i + 1, alerts, looked + 1, qs)
                    ELSE Scan(ps, i + 1, Append(alerts, AlertLine(k, p, q)),
                              looked + 1, qs)

\* The lookups one pass makes: none without the flag or without positions.
Looked(qs) ==
  LET ld == load_positions(file)
      tks == IF flag /\ ld.error = "none"
               THEN {Ticker(ld.value[i].symbol) : i \in 1..Len(ld.value)}
             ELSE {}
  IN  [tk \in Tickers |-> IF tk \in tks THEN qs[tk] ELSE NoData]

LookedQuotes == {Looked(qs) : qs \in Quotes}

Outcome(p, error, msg, looked) ==
  [pc |-> p, error |-> error, msg |-> msg, lookups |-> looked]

\* One pass of monitor_loop's while, from the test of the flag to the sleep.
\* sent: whether send_message succeeds, if it is called.
monitor_loop(sent, qs) ==
  IF ~flag THEN Outcome("done", "none", <<>>, 0)
  ELSE LET ld == load_positions(file)
       IN  IF ld.error # "none" THEN Outcome("crashed", ld.error, <<>>, 0)
           ELSE IF ld.value = <<>> THEN Outcome("sleeping", "none", <<>>, 0)
           ELSE LET sc == Scan(ld.value, 1, <<>>, 0, qs)
                IN  IF sc.error # "none"
                      THEN Outcome("crashed", sc.error, <<>>, sc.lookups)
                    ELSE IF sc.alerts # <<>> /\ get_chat_id # NoChat
                      THEN IF sent
                             THEN Outcome("sleeping", "none", sc.alerts,
                                          sc.lookups)
                           ELSE Outcome("crashed", "TelegramError", <<>>,
                                        sc.lookups)
                    ELSE Outcome("sleeping", "none", <<>>, sc.lookups)

\* The passes the lookups and the delivery allow in the current state.
Passes ==
  {[o |-> monitor_loop(sent, qs), qs |-> qs] :
     sent \in BOOLEAN, qs \in LookedQuotes}

\* ------------------------------------------------------------ Init
Init ==
  /\ chat_id = NoChat
  /\ flag = FALSE
  /\ file \in {Absent, Valid(<<>>)}
  /\ now = 0
  /\ mon_pc = "idle"
  /\ update_chat = NoChat
  /\ loops = 0
  /\ lingering = 0
  /\ bot_pc = "idle"
  /\ bot_positions = <<>>
  /\ nAdds = 0
  /\ addLog = <<>>
  /\ raced = FALSE
  /\ ev = Event("init")
  /\ feed = SoundQuotes
  /\ entry = 0 /\ current = 0 /\ verdict = "pending"

\* ------------------------------------------------------------ monitor.py
\* start_monitor up to the truncation of positions.json.
StartOpen(c) ==
  /\ mon_pc = "idle"
  /\ now < MaxStarts
  /\ chat_id' = c
  /\ update_chat' = c
  /\ file' = open_w(file)
  /\ now' = now + 1
  /\ addLog' = <<>>
  /\ mon_pc' = "clearing"
  /\ ev' = [Event("start_open") EXCEPT !.chat = c]
  /\ UNCHANGED <<flag, loops, lingering, raced, bot_pc, bot_positions,
                 nAdds, classifyVars>>

\* Path(MONITOR_FLAG_FILE).touch()
touch_missing(fl) == fl

touch(fl) == TRUE

\* start_monitor: "[]" written, the marker touched, the confirmation sent.
StartFinish ==
  /\ mon_pc = "clearing"
  /\ file' = clear_positions(file)
  /\ flag' = touch(flag)
  /\ raced' = (bot_pc # "idle" \/ file.st = "ok")
  /\ addLog' = <<>>
  /\ mon_pc' = "replying"
  /\ ev' = [Event("start_reply") EXCEPT !.chat = update_chat,
                                        !.reply = "started"]
  /\ UNCHANGED <<chat_id, now, update_chat, loops, lingering, bot_pc,
                 bot_positions, nAdds, classifyVars>>

\* start_monitor: create_task, and the new task's first pass, which the event
\* loop runs before it handles another command.
StartLaunch ==
  /\ mon_pc = "replying"
  /\ \E r \in Passes :
       /\ loops' = IF r.o.pc = "sleeping" THEN loops + 1 ELSE loops
       /\ ev' = [Event("start_launch") EXCEPT !.next = r.o.pc,
                   !.chat = update_chat, !.error = r.o.error,
                   !.msg = r.o.msg, !.lookups = r.o.lookups,
                   !.quotes = r.qs]
  /\ UNCHANGED lingering
  /\ mon_pc' = "idle"
  /\ update_chat' = NoChat
  /\ UNCHANGED <<fileVars, now, raced, botVars, classifyVars>>

\* os.remove: raises when the file does not exist.
os_remove(fl) ==
  [error |-> IF fl THEN "none" ELSE "FileNotFoundError", flag |-> FALSE]

\* stop_monitor's use of the marker file
stop_unguarded(fl) == os_remove(fl)

stop_monitor_effect(fl) ==
  IF fl THEN os_remove(fl) ELSE [error |-> "none", flag |-> fl]

Stop ==
  /\ mon_pc = "idle"
  /\ LET r == stop_monitor_effect(flag)
     IN  /\ flag' = r.flag
         /\ ev' = [Event("stop") EXCEPT !.error = r.error,
                     !.reply = IF r.error = "none" THEN "stopped"
                               ELSE "none"]
  /\ loops' = 0
  /\ lingering' = lingering + loops
  /\ UNCHANGED <<chat_id, file, now, mon_pc, update_chat, raced,
                 botVars, classifyVars>>

\* An Alert Loop task wakes from its sleep and runs one pass.
\* was_stopped: a stop command was processed while this task was running.
Wake(was_stopped) ==
  /\ IF was_stopped THEN lingering > 0 ELSE loops > 0
  /\ mon_pc \in {"idle", "replying"}
  /\ \E r \in Passes :
       LET ended == IF r.o.pc = "sleeping" THEN 0 ELSE 1
       IN  /\ loops' = IF was_stopped THEN loops ELSE loops - ended
           /\ lingering' = IF was_stopped THEN lingering - ended
                            ELSE lingering
           /\ ev' = [Event("cycle") EXCEPT !.next = r.o.pc,
                       !.stopped = was_stopped, !.error = r.o.error,
                       !.msg = r.o.msg, !.lookups = r.o.lookups,
                       !.quotes = r.qs]
  /\ UNCHANGED <<fileVars, now, mon_pc, update_chat, raced, botVars,
                 classifyVars>>

\* ------------------------------------------------------------ bot.py
\* add_position's list after the append.
add_position_prepends(ps, symbol, price) ==
  <<[symbol |-> symbol, entry_price |-> price, timestamp |-> now]>> \o ps

add_position(ps, symbol, price) ==
  Append(ps, [symbol |-> symbol, entry_price |-> price, timestamp |-> now])

\* buy_handler's symbol
buy_symbol(s) == Upper(s)

\* buy_handler up to add_position's load.
Buy(s) ==
  /\ bot_pc = "idle"
  /\ \E q \in feed :
     LET symbol == buy_symbol(s)
         ld == load_positions(file)
     IN  IF q = NoData
           THEN /\ ev' = [Event("buy") EXCEPT !.reply = "couldnt_fetch"]
                /\ UNCHANGED <<bot_pc, bot_positions, nAdds, addLog>>
         ELSE IF ld.error # "none"
           THEN /\ nAdds < MaxAdds
                /\ nAdds' = nAdds + 1
                /\ ev' = [Event("buy") EXCEPT !.error = ld.error]
                /\ UNCHANGED <<bot_pc, bot_positions, addLog>>
         ELSE /\ nAdds < MaxAdds
              /\ nAdds' = nAdds + 1
              /\ bot_positions' = add_position(ld.value, symbol, q)
              /\ addLog' = IF raced \/ mon_pc = "clearing" THEN <<>>
                           ELSE Append(addLog, <<symbol, q>>)
              /\ bot_pc' = "loaded"
              /\ ev' = Event("add_load")
  /\ UNCHANGED <<fileVars, now, monVars, classifyVars>>

\* save_positions: open(POS_FILE, "w")
AddOpen ==
  /\ bot_pc = "loaded"
  /\ file' = open_w(file)
  /\ bot_pc' = "opened"
  /\ ev' = Event("add_open")
  /\ UNCHANGED <<chat_id, flag, now, monVars, bot_positions, nAdds,
                 addLog, classifyVars>>

\* save_positions: json.dump and close; then buy_handler's acknowledgement.
AddDump ==
  /\ bot_pc = "opened"
  /\ file' = write_close(file, bot_positions)
  /\ bot_pc' = "idle"
  /\ bot_positions' = <<>>
  /\ ev' = [Event("buy") EXCEPT !.reply = "recorded"]
  /\ UNCHANGED <<chat_id, flag, now, monVars, nAdds, addLog,
                 classifyVars>>

Next ==
  \/ \E c \in Chats : StartOpen(c)
  \/ StartFinish
  \/ StartLaunch
  \/ Stop
  \/ \E was_stopped \in BOOLEAN : Wake(was_stopped)
  \/ \E s \in Typed : Buy(s)
  \/ AddOpen
  \/ AddDump

Spec == Init /\ [][Next]_vars

\* The same program on a feed that can return a close of 0.
InitZero ==
  /\ chat_id = NoChat
  /\ flag = FALSE
  /\ file \in {Absent, Valid(<<>>)}
  /\ now = 0
  /\ mon_pc = "idle"
  /\ update_chat = NoChat
  /\ loops = 0
  /\ lingering = 0
  /\ bot_pc = "idle"
  /\ bot_positions = <<>>
  /\ nAdds = 0
  /\ addLog = <<>>
  /\ raced = FALSE
  /\ ev = Event("init")
  /\ feed = ZeroQuotes
  /\ entry = 0 /\ current = 0 /\ verdict = "pending"

SpecZero == InitZero /\ [][Next]_vars

\* ------------------------------------------------- classification alone
\* The classification of the loop body applied to one (entry, current).
InitClassify ==
  /\ chat_id = NoChat
  /\ flag = FALSE
  /\ file = Absent
  /\ now = 0
  /\ mon_pc = "idle"
  /\ update_chat = NoChat
  /\ loops = 0
  /\ lingering = 0
  /\ bot_pc = "idle"
  /\ bot_positions = <<>>
  /\ nAdds = 0
  /\ addLog = <<>>
  /\ raced = FALSE
  /\ ev = Event("init")
  /\ feed = SoundQuotes
  /\ entry \in (0 - MaxBelowZero)..MaxPrice
  /\ current \in 0..MaxPrice
  /\ verdict = "pending"

ClassifyStep ==
  /\ verdict = "pending"
  /\ verdict' = Classify(entry, current)
  /\ UNCHANGED <<fileVars, now, monVars, botVars, ev, feed, entry, current>>

NextClassify == ClassifyStep

SpecClassify == InitClassify /\ [][NextClassify]_vars

\* ================================================================ claims
\* What a reader of the store gets, unreadable text read as nothing.
Stored(f) == IF f.st = "ok" THEN f.data ELSE <<>>

IsPass == ev.op \in {"cycle", "start_launch"}

\* C1: at most one Alert Loop task is active at any time, whatever the
\* sequence of start and stop commands.
C1_AtMostOneLoop == loops + lingering <= 1

\* C2: a loop task that was running when a stop command was processed ends
\* at its next wake, whatever commands followed the stop.
C2_StoppedLoopEnds ==
  [][(ev'.op = "cycle" /\ ev'.stopped) => ev'.next # "sleeping"]_vars

\* No position in the store was recorded before the latest start.
NoStale ==
  \A i \in 1..Len(Stored(file)) : Stored(file)[i].timestamp >= now

\* C3 as stated: once a start has been processed the recipient is its sender,
\* the flag is present and no position recorded before the start is in the
\* store, also when an add overlaps the clear.
C3_FreshWindow ==
  ev.op = "start_launch" => (chat_id = ev.chat /\ flag /\ NoStale)

\* C3 amended: once a start has been processed the recipient is its sender
\* and the flag is present; no position recorded before the start is in the
\* store unless an add overlapped the clear.
C3_FreshWindowUnlessRaced ==
  ev.op = "start_launch" =>
    (chat_id = ev.chat /\ chat_id \in Chats /\ flag /\ (~raced => NoStale))

\* A second start, after a purchase, has been processed with no add
\* overlapping its clear.
C3_Witness ==
  /\ ev.op = "start_launch"
  /\ now = 2
  /\ nAdds >= 1
  /\ ~raced
  /\ file = Valid(<<>>)

\* C4: a stop command removes the flag and changes neither the recipient nor
\* the stored positions; it replies and raises nothing, also when the flag was
\* already absent.
C4_StopOnlyClearsFlag ==
  [][ev'.op = "stop" =>
       (/\ ~flag'
        /\ chat_id' = chat_id
        /\ file' = file
        /\ ev'.error = "none"
        /\ ev'.reply = "stopped")]_vars

\* A stop has been processed and the recipient and a stored position survive.
C4_Witness ==
  /\ ev.op = "stop"
  /\ ~flag
  /\ chat_id \in Chats
  /\ Len(Stored(file)) > 0

\* C5: change >= 3.0 is exactly an "up" alert, change <= -2.0 exactly a
\* "down" alert, anything between no alert; the thresholds are inclusive and
\* no pair yields both.
C5_Classification ==
  (verdict # "pending" /\ entry # 0) =>
    LET d == 100 * (current - entry)
        up == IF entry > 0 THEN d >= 3 * entry ELSE d <= 3 * entry
        down == IF entry > 0 THEN d <= (0 - 2) * entry
                ELSE d >= (0 - 2) * entry
    IN  /\ (verdict = "up") <=> up
        /\ (verdict = "down") <=> down
        /\ (verdict = "none") <=> (~up /\ ~down)
        /\ ~(up /\ down)
        /\ (entry = 100 /\ current \in {103, 104}) => verdict = "up"
        /\ (entry = 100 /\ current = 101) => verdict = "none"
        /\ (entry = 100 /\ current \in {97, 98}) => verdict = "down"

\* The upper boundary has been classified.
C5_Witness == entry = 100 /\ current = 103 /\ verdict = "up"

Pairs(ps) == [i \in 1..Len(ps) |-> <<ps[i].symbol, ps[i].entry_price>>]

\* C6: with no start overlapping, the store holds exactly the (symbol, price)
\* pairs of the adds made since it was empty, in the order of the adds.
C6_AddsAppendInOrder ==
  (~raced /\ mon_pc # "clearing" /\ bot_pc = "idle") =>
    (file.st # "bad" /\ Pairs(Stored(file)) = addLog)

\* Two lots of the same symbol have been added and are both in the store.
C6_Witness ==
  /\ ~raced /\ mon_pc = "idle" /\ bot_pc = "idle"
  /\ Len(addLog) = 2
  /\ addLog[1][1] = addLog[2][1]
  /\ Pairs(Stored(file)) = addLog

\* C7: a pass of the Alert Loop or an add that finds the position file
\* unparseable goes on as if the store were empty, and raises nothing.
C7_UnreadableLoadsAsEmpty ==
  /\ (IsPass /\ flag /\ file.st = "bad") =>
       (ev.error = "none" /\ ev.next = "sleeping")
  /\ (ev.op = "buy" /\ file.st = "bad") => ev.error = "none"

\* C8: every "I buy" message ends in exactly one reply, the acknowledgement
\* or the could-not-fetch notice, and the handler never raises.
C8_BuyRepliesOnce ==
  ev.op = "buy" =>
    (ev.error = "none" /\ ev.reply \in {"recorded", "couldnt_fetch"})

\* The alert lines a pass owes: one per stored position whose lookup
\* succeeded and whose change crosses a threshold, in stored order.
Owed(ps, qs) ==
  LET Crosses(i) ==
        LET e == ps[i].entry_price
            q == qs[Ticker(ps[i].symbol)]
        IN  /\ q # NoData
            /\ e > 0
            /\ (100 * (q - e) >= 3 * e \/ 100 * (q - e) <= (0 - 2) * e)
      idx == SelectSeq([i \in 1..Len(ps) |-> i], Crosses)
  IN  [k \in 1..Len(idx) |->
         [symbol |-> ps[idx[k]].symbol,
          dir |-> IF qs[Ticker(ps[idx[k]].symbol)] > ps[idx[k]].entry_price
                    THEN "up" ELSE "down"]]

Told(msg) == [k \in 1..Len(msg) |-> [symbol |-> msg[k].symbol,
                                      dir |-> msg[k].dir]]

\* C9: the one message of a pass holds exactly the owed alert lines in stored
\* order, a failed lookup only skipping its position; nothing is sent when
\* no line is owed or no recipient is recorded, and an empty store costs no
\* lookup.
C9_PassAlerts ==
  IsPass =>
    LET ps == Stored(file)
        owed == Owed(ps, ev.quotes)
    IN  /\ Told(ev.msg) \in {<<>>, owed}
        /\ (owed = <<>> \/ chat_id = NoChat) => ev.msg = <<>>
        /\ (ev.error = "none" /\ flag /\ chat_id # NoChat)
             => Told(ev.msg) = owed
        /\ ps = <<>> => ev.lookups = 0
        /\ (ev.error = "none" /\ flag) => ev.lookups = Len(ps)

\* A pass over two positions: the lookup of the first failed, the second
\* crossed a threshold and is the only line of the message.
C9_Witness ==
  /\ ev.op = "cycle"
  /\ Len(Stored(file)) = 2
  /\ ev.quotes[Ticker(Stored(file)[1].symbol)] = NoData
  /\ Len(ev.msg) = 1
  /\ ev.msg[1].symbol = Stored(file)[2].symbol

\* C10: a loop task ends only by finding the flag absent, whatever the
\* stored positions contain and whatever the lookups return (stated for the
\* passes whose load and whose delivery did not fail).
C10_LoopEndsOnlyOnFlagAbsent ==
  [][(/\ ev'.op \in {"cycle", "start_launch"}
      /\ ev'.next # "sleeping"
      /\ ev'.error \notin {"JSONDecodeError", "TelegramError"})
       => ~flag]_vars

====
